---- MODULE Spec2Model ----
(***************************************************************************)
(* A model of ipam2: the best-fit range allocator (allocator.py) and the   *)
(* command-line layer that persists pools carved out of an address pool    *)
(* (ipam2.py).  Addresses are AddrBits wide instead of 32 bits; all the    *)
(* arithmetic of the allocator is kept as the code performs it.            *)
(***************************************************************************)
EXTENDS Integers, Sequences, FiniteSets, TLC

\* Width of an address in bits (32 in the code), scaled down.
AddrBits == 5
\* The callers of one allocator work around one block of 2^WindowBits addresses.
WindowBits == 3
\* Number of calls made on one IPAllocator instance.
MaxOps == 3
\* Largest row id handed out in a table (ids grow without limit in the code).
MaxId == 2
\* Number of find_best_fit calls made on an allocator that is given nothing else.
MaxFinds == 4

Pow2(n) == 2 ^ n

AddrSpace == 0 .. (Pow2(AddrBits) - 1)
Prefixes == 0 .. AddrBits

\* A CIDR string "address/prefix_length" is the pair <<address, prefix_length>>;
\* the address may carry host bits (the code parses with strict=False).
Cidrs == AddrSpace \X Prefixes
\* CIDR strings as the code itself writes them: no host bits set.
CanonicalCidrs == {c \in Cidrs : c[1] % Pow2(AddrBits - c[2]) = 0}

\* Optional[str]: None, a CIDR string, or the bool that is_available returns.
None == [tag |-> "None", addr |-> 0, prefix |-> 0, val |-> FALSE]
Str(cidr) == [tag |-> "cidr", addr |-> cidr[1], prefix |-> cidr[2], val |-> FALSE]
Bool(b) == [tag |-> "bool", addr |-> 0, prefix |-> 0, val |-> b]

-----------------------------------------------------------------------------
(* allocator.py: conversions *)

\* ipaddress.IPv4Network(cidr, strict=False).network_address
network_address(cidr) == cidr[1] - (cidr[1] % Pow2(AddrBits - cidr[2]))
\* ipaddress.IPv4Network(cidr, strict=False).broadcast_address
broadcast_address(cidr) == network_address(cidr) + Pow2(AddrBits - cidr[2]) - 1

\* Faulty variant: the range ends one address after the broadcast address.
_network_range_past_end(cidr) == <<network_address(cidr), broadcast_address(cidr) + 1>>
\* IPAllocator._network_range
_network_range(cidr) == <<network_address(cidr), broadcast_address(cidr)>>

\* Python's ordering of (start, end) tuples.
TupleLess(x, y) == x[1] < y[1] \/ (x[1] = y[1] /\ x[2] < y[2])

\* bisect.bisect_right(a, x, lo, hi)
RECURSIVE bisect_right(_, _, _, _)
bisect_right(a, x, lo, hi) ==
    IF lo < hi
    THEN LET mid == (lo + hi) \div 2
         IN  IF TupleLess(x, a[mid + 1])
             THEN bisect_right(a, x, lo, mid)
             ELSE bisect_right(a, x, mid + 1, hi)
    ELSE lo

\* bisect.insort(a, x)
insort(a, x) ==
    LET at == bisect_right(a, x, 0, Len(a))
    IN  SubSeq(a, 1, at) \o <<x>> \o SubSeq(a, at + 1, Len(a))

\* sorted(a): a stable sort of the tuples
RECURSIVE sorted(_)
sorted(a) == IF a = <<>> THEN <<>>
             ELSE insort(sorted(SubSeq(a, 1, Len(a) - 1)), a[Len(a)])

Max(x, y) == IF x >= y THEN x ELSE y
Min(x, y) == IF x <= y THEN x ELSE y
Abs(x) == IF x >= 0 THEN x ELSE 0 - x

\* Faulty variant: merges overlapping ranges only (>= start without the + 1).
merge_step_overlap_only(merged, r) ==
    IF merged = <<>> THEN <<r>>
    ELSE IF merged[Len(merged)][2] >= r[1]
         THEN [merged EXCEPT ![Len(merged)] = <<@[1], Max(@[2], r[2])>>]
         ELSE Append(merged, r)
\* Faulty variant: takes the end of the later range instead of the maximum.
merge_step_no_max(merged, r) ==
    IF merged = <<>> THEN <<r>>
    ELSE IF merged[Len(merged)][2] + 1 >= r[1]
         THEN [merged EXCEPT ![Len(merged)] = <<@[1], r[2]>>]
         ELSE Append(merged, r)
\* One iteration of the loop of _merge_ranges: merged is the list built so far.
merge_step(merged, r) ==
    IF merged = <<>> THEN <<r>>
    ELSE IF merged[Len(merged)][2] + 1 >= r[1]
         THEN [merged EXCEPT ![Len(merged)] = <<@[1], Max(@[2], r[2])>>]
         ELSE Append(merged, r)

RECURSIVE merge_loop(_, _)
merge_loop(merged, rest) ==
    IF rest = <<>> THEN merged
    ELSE merge_loop(merge_step(merged, Head(rest)), Tail(rest))

\* IPAllocator._merge_ranges
_merge_ranges(ranges) ==
    IF ranges = <<>> THEN ranges ELSE merge_loop(<<>>, sorted(ranges))

\* Faulty variant: inserts the range and forgets to merge.
add_used_range_no_merge(ranges, cidr) == insort(ranges, _network_range(cidr))
\* IPAllocator.add_used_range: the new value of used_ranges
add_used_range(ranges, cidr) == _merge_ranges(insort(ranges, _network_range(cidr)))

\* Faulty variant: ranges that share only a boundary address count as disjoint.
is_available_open_ends(ranges, cidr) ==
    LET r == _network_range(cidr)
    IN  \A i \in 1 .. Len(ranges) :
            r[2] <= ranges[i][1] \/ r[1] >= ranges[i][2]
\* IPAllocator.is_available
is_available(ranges, cidr) ==
    LET r == _network_range(cidr)
    IN  \A i \in 1 .. Len(ranges) :
            r[2] < ranges[i][1] \/ r[1] > ranges[i][2]

-----------------------------------------------------------------------------
(* allocator.py: find_best_fit *)

required_size(prefix_length) == Pow2(AddrBits - prefix_length)

\* int(self.parent_network.network_address)
parent_start(parent_cidr) == network_address(parent_cidr)
\* Faulty variant: the first address after the parent instead of its last one.
parent_end_exclusive(parent_cidr) == broadcast_address(parent_cidr) + 1
\* int(self.parent_network.broadcast_address)
parent_end(parent_cidr) == broadcast_address(parent_cidr)

\* Faulty variant: a gap of exactly the required size does not qualify.
candidate_strict(gap_start, gap_end, size) ==
    IF gap_end - gap_start + 1 > size
    THEN << <<gap_start, gap_end, Abs(gap_end - gap_start + 1 - size)>> >>
    ELSE <<>>
\* The (gap_start, gap_end, waste) tuple appended to gaps, if the gap is big enough.
candidate(gap_start, gap_end, size) ==
    IF gap_end - gap_start + 1 >= size
    THEN << <<gap_start, gap_end, Abs(gap_end - gap_start + 1 - size)>> >>
    ELSE <<>>

\* "Gap before first range"
gap_before_first(ranges, pstart, pend, size) ==
    IF ranges[1][1] > pstart + size - 1
    THEN candidate(pstart, Min(pend, ranges[1][1] - 1), size)
    ELSE <<>>

\* Faulty variant: a gap between two ranges ends on the next used address (no - 1).
RECURSIVE gaps_between_off_by_one(_, _, _)
gaps_between_off_by_one(ranges, i, size) ==
    IF i > Len(ranges) - 1 THEN <<>>
    ELSE candidate(ranges[i][2] + 1, ranges[i + 1][1], size)
         \o gaps_between_off_by_one(ranges, i + 1, size)
\* "Gaps between ranges": the loop from index i on (i counts from 1 here)
RECURSIVE gaps_between(_, _, _)
gaps_between(ranges, i, size) ==
    IF i > Len(ranges) - 1 THEN <<>>
    ELSE candidate(ranges[i][2] + 1, ranges[i + 1][1] - 1, size)
         \o gaps_between(ranges, i + 1, size)

\* Faulty variant: a gap after the last range of exactly the required size is missed.
gap_after_last_strict(ranges, pstart, pend, size) ==
    IF ranges[Len(ranges)][2] < pend - size
    THEN candidate(ranges[Len(ranges)][2] + 1, pend, size)
    ELSE <<>>
\* "Gap after last range"
gap_after_last(ranges, pstart, pend, size) ==
    IF ranges[Len(ranges)][2] < pend - size + 1
    THEN candidate(ranges[Len(ranges)][2] + 1, pend, size)
    ELSE <<>>

\* The list gaps, in the order the code appends to it.
candidate_gaps(ranges, pstart, pend, size) ==
    IF ranges = <<>>
    THEN candidate(pstart, pend, size)
    ELSE gap_before_first(ranges, pstart, pend, size)
         \o gaps_between(ranges, 1, size)
         \o gap_after_last(ranges, pstart, pend, size)

\* min(gaps, key=lambda x: x[2]): the first gap of least waste
RECURSIVE min_from(_, _, _)
min_from(gaps, i, best) ==
    IF i > Len(gaps) THEN best
    ELSE min_from(gaps, i + 1, IF gaps[i][3] < best[3] THEN gaps[i] ELSE best)

\* Faulty variant: the last gap of least waste.
RECURSIVE min_from_last(_, _, _)
min_from_last(gaps, i, best) ==
    IF i > Len(gaps) THEN best
    ELSE min_from_last(gaps, i + 1, IF gaps[i][3] <= best[3] THEN gaps[i] ELSE best)
best_gap_last(gaps) == min_from_last(gaps, 2, gaps[1])
\* Faulty variant: the first gap of most waste (the largest gap).
RECURSIVE max_from(_, _, _)
max_from(gaps, i, best) ==
    IF i > Len(gaps) THEN best
    ELSE max_from(gaps, i + 1, IF gaps[i][3] > best[3] THEN gaps[i] ELSE best)
best_gap_largest(gaps) == max_from(gaps, 2, gaps[1])
\* best_gap = min(gaps, key=lambda x: x[2])
best_gap(gaps) == min_from(gaps, 2, gaps[1])

\* gap_center & mask, with mask = (0xFFFFFFFF << (32 - prefix_length)) & 0xFFFFFFFF
and_mask(x, prefix_length) ==
    (x % Pow2(AddrBits)) - (x % Pow2(AddrBits - prefix_length))

\* Faulty variant: the allocation is moved to gap_start itself, aligned or not.
snap_forward_to_gap_start(gap_start, prefix_length) == gap_start
\* ((gap_start >> (32 - prefix_length)) + 1) << (32 - prefix_length)
snap_forward(gap_start, prefix_length) ==
    ((gap_start \div Pow2(AddrBits - prefix_length)) + 1) * Pow2(AddrBits - prefix_length)

\* Faulty variant: the allocation ends on gap_end, without the shifts that re-align it.
snap_backward_unaligned(gap_end, prefix_length) ==
    gap_end - required_size(prefix_length) + 1
\* ((gap_end - required_size + 1) >> (32 - prefix_length)) << (32 - prefix_length)
snap_backward(gap_end, prefix_length) ==
    ((gap_end - required_size(prefix_length) + 1) \div Pow2(AddrBits - prefix_length))
        * Pow2(AddrBits - prefix_length)

\* Faulty variant: the centre taken as the mean of the two ends of the gap.
centre_of_ends(gap_start, gap_end, prefix_length) ==
    and_mask((gap_start + gap_end) \div 2, prefix_length)
\* Faulty variant: the centre of the gap, not aligned.
centre_unaligned(gap_start, gap_end, prefix_length) ==
    gap_start + ((gap_end - gap_start + 1) \div 2)
\* alloc_start = gap_center & mask ("Align to network boundary")
centre(gap_start, gap_end, prefix_length) ==
    and_mask(gap_start + ((gap_end - gap_start + 1) \div 2), prefix_length)

\* alloc_start after "Ensure it's within the gap and has enough space"
snapped(gap_start, gap_end, prefix_length) ==
    LET c == centre(gap_start, gap_end, prefix_length)
        fwd == IF c < gap_start THEN snap_forward(gap_start, prefix_length) ELSE c
    IN  IF fwd + required_size(prefix_length) - 1 > gap_end
        THEN snap_backward(gap_end, prefix_length)
        ELSE fwd

\* Faulty variant: only the end of the allocation is validated.
rejected_end_only(alloc_start, alloc_end, gap_start, gap_end) ==
    alloc_end > gap_end
\* Faulty variant: an allocation that touches an end of the gap is rejected too.
rejected_touching(alloc_start, alloc_end, gap_start, gap_end) ==
    alloc_start <= gap_start \/ alloc_end >= gap_end
\* "Final validation": TRUE when the allocation is rejected
rejected(alloc_start, alloc_end, gap_start, gap_end) ==
    alloc_start < gap_start \/ alloc_end > gap_end

\* Faulty variant: the block is added to the used ranges before it is validated.
find_best_fit_add_first(ranges, parent_cidr, prefix_length) ==
    LET size == required_size(prefix_length)
        gaps == candidate_gaps(ranges, parent_start(parent_cidr),
                               parent_end(parent_cidr), size)
    IN  IF gaps = <<>> THEN [ret |-> None, used |-> ranges]
        ELSE LET best == best_gap(gaps)
                 alloc_start == snapped(best[1], best[2], prefix_length)
                 alloc_end == alloc_start + size - 1
                 alloc_cidr == <<alloc_start, prefix_length>>
             IN  [ret |-> IF rejected(alloc_start, alloc_end, best[1], best[2])
                          THEN None ELSE Str(alloc_cidr),
                  used |-> add_used_range(ranges, alloc_cidr)]
\* IPAllocator.find_best_fit: the value returned and the new value of used_ranges
find_best_fit(ranges, parent_cidr, prefix_length) ==
    LET size == required_size(prefix_length)
        gaps == candidate_gaps(ranges, parent_start(parent_cidr),
                               parent_end(parent_cidr), size)
    IN  IF gaps = <<>> THEN [ret |-> None, used |-> ranges]
        ELSE LET best == best_gap(gaps)
                 alloc_start == snapped(best[1], best[2], prefix_length)
                 alloc_end == alloc_start + size - 1
                 alloc_cidr == <<alloc_start, prefix_length>>
             IN  IF rejected(alloc_start, alloc_end, best[1], best[2])
                 THEN [ret |-> None, used |-> ranges]
                 ELSE [ret |-> Str(alloc_cidr),
                       used |-> add_used_range(ranges, alloc_cidr)]

-----------------------------------------------------------------------------
(* One IPAllocator instance and the calls made on it *)

VARIABLES
    parent_cidr,    \* IPAllocator.parent_cidr
    used_ranges,    \* IPAllocator.used_ranges
    op,             \* the method called last
    prefix_length,  \* its prefix_length argument (find_best_fit)
    covered,        \* add_used_range: one used range already held the whole CIDR
    ret,            \* the value it returned
    taken,          \* every address added or returned so far
    nops            \* number of calls made

allocVars == <<parent_cidr, used_ranges, op, prefix_length, covered, ret, taken, nops>>

\* The addresses a CIDR denotes: those sharing its first prefix_length bits.
Addrs(c) ==
    LET size == Pow2(AddrBits - c[2])
        first == (c[1] \div size) * size
    IN  first .. (first + size - 1)

\* The block of 2^WindowBits addresses the callers work around: the second one
\* of the address space.
Window == <<Pow2(WindowBits), AddrBits - WindowBits>>

\* Parents: the window, its lower half, and its upper half written with a host
\* bit set.
ParentCidrs ==
    {Window,
     <<Window[1], Window[2] + 1>>,
     <<Window[1] + Pow2(WindowBits - 1) + 1, Window[2] + 1>>}

\* The CIDRs given to add_used_range and is_available: every network inside the
\* window and every network that holds it.
InputCidrs == {c \in CanonicalCidrs : Addrs(c) \cap Addrs(Window) # {}}

\* The CIDRs of children of the parent, as the persisted records hold them.
ChildCidrs == {c \in CanonicalCidrs : Addrs(c) \subseteq Addrs(parent_cidr)}

\* The addresses a used-range list covers.
Cover(ranges) == UNION {ranges[i][1] .. ranges[i][2] : i \in 1 .. Len(ranges)}
\* The addresses of a CIDR that find_best_fit returned.
Block(r) == Addrs(<<r.addr, r.prefix>>)

\* IPAllocator.__init__
AllocInit ==
    /\ parent_cidr \in ParentCidrs
    /\ used_ranges = <<>>
    /\ op = "__init__"
    /\ prefix_length = 0
    /\ covered = FALSE
    /\ ret = None
    /\ taken = {}
    /\ nops = 0

AddUsedRange(c) ==
    /\ nops < MaxOps
    /\ used_ranges' = add_used_range(used_ranges, c)
    /\ op' = "add_used_range"
    /\ prefix_length' = 0
    /\ covered' = \E i \in 1 .. Len(used_ranges) :
                      /\ \A x \in Addrs(c) : used_ranges[i][1] <= x /\ x <= used_ranges[i][2]
    /\ ret' = None
    /\ taken' = taken \cup Addrs(c)
    /\ nops' = nops + 1
    /\ UNCHANGED parent_cidr

IsAvailable(c) ==
    /\ nops < MaxOps
    /\ ret' = Bool(is_available(used_ranges, c))
    /\ op' = "is_available"
    /\ prefix_length' = 0
    /\ covered' = FALSE
    /\ nops' = nops + 1
    /\ UNCHANGED <<parent_cidr, used_ranges, taken>>

\* A call of find_best_fit(p) on the instance.
CallFindBestFit(p) ==
    /\ LET r == find_best_fit(used_ranges, parent_cidr, p)
       IN  /\ used_ranges' = r.used
           /\ ret' = r.ret
           /\ taken' = IF r.ret.tag = "cidr"
                       THEN taken \cup Addrs(<<r.ret.addr, r.ret.prefix>>)
                       ELSE taken
    /\ op' = "find_best_fit"
    /\ prefix_length' = p
    /\ covered' = FALSE
    /\ nops' = nops + 1
    /\ UNCHANGED parent_cidr

FindBestFit(p) == nops < MaxOps /\ CallFindBestFit(p)

-----------------------------------------------------------------------------
(* CIDRs handed to add_used_range of a fresh allocator, in any order *)

VARIABLES
    added           \* the set of CIDRs added so far

orderVars == <<added>>

OrderIdle == added = {}

-----------------------------------------------------------------------------
(* ipam2.py: the persisted records and the commands that run against them *)

VARIABLES
    address_pools,  \* rows of table address_pools: [name, cidr]
    vpcs,           \* rows of table vpcs: the names
    pools,          \* rows of table pools, in the order of their ids
    subnets,        \* rows of table subnets, in the order of their ids
    pc,             \* where each running 'pool create' command stands
    cmd             \* its arguments and the CIDR it was allocated

cliVars == <<address_pools, vpcs, pools, subnets, pc, cmd>>

\* Commands that may run at the same time, each in its own process.
Procs == {1, 2}
AddressPoolNames == {"main"}
VpcNames == {"prod"}
PoolNames == {"web", "db"}
SubnetNames == {"front", "back"}
\* Address pools of the commands run one at a time: two, so that a pool name
\* can be taken in both.
SeqAddressPoolNames == {"main", "lab"}

NoCmd == [name |-> "", address_pool_name |-> "", vpc_name |-> "", prefix |-> 0,
          cidr |-> <<0, 0>>]

\* Base.metadata.create_all on a new database: empty tables, no command running.
CliIdle ==
    /\ address_pools = {}
    /\ vpcs = {}
    /\ pools = <<>>
    /\ subnets = <<>>
    /\ pc = [p \in Procs |-> "idle"]
    /\ cmd = [p \in Procs |-> NoCmd]

\* Column(Integer, primary_key=True, autoincrement=True) on SQLite, the default
\* driver: the new row gets the largest id in the table plus one.
next_id(rows) == IF rows = <<>> THEN 1 ELSE rows[Len(rows)].id + 1

\* 'addresspool create name cidr': the primary key rejects a second row of the name.
AddressPoolCreate(name, c) ==
    /\ \A ap \in address_pools : ap.name # name
    /\ address_pools' = address_pools \cup {[name |-> name, cidr |-> c]}
    /\ UNCHANGED <<vpcs, pools, subnets, pc, cmd>>

\* 'vpc create name'
VpcCreate(name) ==
    /\ name \notin vpcs
    /\ vpcs' = vpcs \cup {name}
    /\ UNCHANGED <<address_pools, pools, subnets, pc, cmd>>

\* 'pool create': the checks made before allocating; a failed check ends the command.
PoolCreateChecks(p, name, address_pool_name, vpc_name, prefix) ==
    /\ pc[p] = "idle"
    /\ ~(prefix < 0 \/ prefix > AddrBits)
    /\ \E ap \in address_pools :
           /\ ap.name = address_pool_name
           /\ ~(prefix <= ap.cidr[2])
    /\ vpc_name \in vpcs
    /\ ~\E i \in 1 .. Len(pools) :
           pools[i].address_pool_id = address_pool_name /\ pools[i].name = name
    /\ pc' = [pc EXCEPT ![p] = "allocate"]
    /\ cmd' = [cmd EXCEPT ![p] = [name |-> name, address_pool_name |-> address_pool_name,
                                  vpc_name |-> vpc_name, prefix |-> prefix,
                                  cidr |-> <<0, 0>>]]
    /\ UNCHANGED <<address_pools, vpcs, pools, subnets>>

\* Faulty variant: the rows' ranges are appended as enumerated, neither sorted
\* nor merged.
RECURSIVE rebuild_append(_, _, _, _)
rebuild_append(rows, address_pool_name, i, ranges) ==
    IF i > Len(rows) THEN ranges
    ELSE rebuild_append(rows, address_pool_name, i + 1,
                 IF rows[i].address_pool_id = address_pool_name
                 THEN Append(ranges, _network_range(rows[i].cidr))
                 ELSE ranges)
\* IPAMDatabase.get_addr_pool_allocator: used_ranges of the allocator rebuilt from
\* the rows of pools that belong to the address pool, from row i on.
RECURSIVE rebuild(_, _, _, _)
rebuild(rows, address_pool_name, i, ranges) ==
    IF i > Len(rows) THEN ranges
    ELSE rebuild(rows, address_pool_name, i + 1,
                 IF rows[i].address_pool_id = address_pool_name
                 THEN add_used_range(ranges, rows[i].cidr)
                 ELSE ranges)

\* IPAMDatabase.allocate_pool
allocate_pool(address_pool_name, prefix) ==
    IF \E ap \in address_pools : ap.name = address_pool_name
    THEN LET ap == CHOOSE ap \in address_pools : ap.name = address_pool_name
         IN  find_best_fit(rebuild(pools, address_pool_name, 1, <<>>), ap.cidr, prefix).ret
    ELSE None

\* 'pool create': cidr = db.allocate_pool(...); "No space available" ends the command.
PoolCreateAllocate(p) ==
    /\ pc[p] = "allocate"
    /\ LET r == allocate_pool(cmd[p].address_pool_name, cmd[p].prefix)
       IN  IF r.tag = "cidr"
           THEN /\ pc' = [pc EXCEPT ![p] = "commit"]
                /\ cmd' = [cmd EXCEPT ![p].cidr = <<r.addr, r.prefix>>]
           ELSE /\ pc' = [pc EXCEPT ![p] = "idle"]
                /\ cmd' = [cmd EXCEPT ![p] = NoCmd]
    /\ UNCHANGED <<address_pools, vpcs, pools, subnets>>

\* 'pool create': session.add(pool); session.commit().  The unique constraint on
\* (address_pool_id, name) raises IntegrityError and the insert is rolled back.
PoolCreateCommit(p) ==
    /\ pc[p] = "commit"
    /\ IF \E i \in 1 .. Len(pools) :
             /\ pools[i].address_pool_id = cmd[p].address_pool_name
             /\ pools[i].name = cmd[p].name
       THEN pools' = pools
       ELSE pools' = Append(pools, [id |-> next_id(pools),
                                    name |-> cmd[p].name, cidr |-> cmd[p].cidr,
                                    address_pool_id |-> cmd[p].address_pool_name,
                                    vpc_id |-> cmd[p].vpc_name])
    /\ pc' = [pc EXCEPT ![p] = "idle"]
    /\ cmd' = [cmd EXCEPT ![p] = NoCmd]
    /\ UNCHANGED <<address_pools, vpcs, subnets>>

-----------------------------------------------------------------------------
(* ipam2.py: the commands run one after the other, each from start to end *)

\* session.query(Pool).filter_by(name=name).first(): the row of least id
first_pool(name) ==
    pools[CHOOSE i \in 1 .. Len(pools) :
              /\ pools[i].name = name
              /\ \A j \in 1 .. (i - 1) : pools[j].name # name]

\* session.query(Subnet).filter_by(name=name).first(): the row of least id
first_subnet(name) ==
    subnets[CHOOSE i \in 1 .. Len(subnets) :
                /\ subnets[i].name = name
                /\ \A j \in 1 .. (i - 1) : subnets[j].name # name]

\* Faulty variant: the subnet rows are enumerated from the second one on.
RECURSIVE rebuild_subnets_skip_first(_, _, _, _)
rebuild_subnets_skip_first(rows, pool_id, i, ranges) ==
    IF i + 1 > Len(rows) THEN ranges
    ELSE rebuild_subnets_skip_first(rows, pool_id, i + 1,
                 IF rows[i + 1].pool_id = pool_id
                 THEN add_used_range(ranges, rows[i + 1].cidr)
                 ELSE ranges)
\* IPAMDatabase.get_pool_allocator: used_ranges of the allocator rebuilt from
\* pool.subnets, the rows of subnets whose pool_id is the pool's id, from row i on.
RECURSIVE rebuild_subnets(_, _, _, _)
rebuild_subnets(rows, pool_id, i, ranges) ==
    IF i > Len(rows) THEN ranges
    ELSE rebuild_subnets(rows, pool_id, i + 1,
                 IF rows[i].pool_id = pool_id
                 THEN add_used_range(ranges, rows[i].cidr)
                 ELSE ranges)

\* IPAMDatabase.allocate_subnet
allocate_subnet(pool_name, prefix) ==
    IF \E i \in 1 .. Len(pools) : pools[i].name = pool_name
    THEN LET pool == first_pool(pool_name)
         IN  find_best_fit(rebuild_subnets(subnets, pool.id, 1, <<>>), pool.cidr, prefix).ret
    ELSE None

\* 'addresspool delete name': refused while a pool of the address pool exists.
AddressPoolDelete(name) ==
    /\ \E ap \in address_pools : ap.name = name
    /\ ~\E i \in 1 .. Len(pools) : pools[i].address_pool_id = name
    /\ address_pools' = {ap \in address_pools : ap.name # name}
    /\ UNCHANGED <<vpcs, pools, subnets, pc, cmd>>

\* 'vpc delete name': session.delete(vpc) cascades to the pools and subnets of the
\* VPC, and from each pool deleted to its subnets.
VpcDelete(name) ==
    /\ name \in vpcs
    /\ vpcs' = vpcs \ {name}
    /\ pools' = SelectSeq(pools, LAMBDA r : r.vpc_id # name)
    /\ subnets' = SelectSeq(subnets, LAMBDA r :
                       /\ r.vpc_id # name
                       /\ ~\E i \in 1 .. Len(pools) :
                              pools[i].vpc_id = name /\ pools[i].id = r.pool_id)
    /\ UNCHANGED <<address_pools, pc, cmd>>

\* 'pool create name address_pool_name vpc_name --prefix prefix', start to end.
PoolCreate(name, address_pool_name, vpc_name, prefix) ==
    /\ ~(prefix < 0 \/ prefix > AddrBits)
    /\ \E ap \in address_pools :
           /\ ap.name = address_pool_name
           /\ ~(prefix <= ap.cidr[2])
    /\ vpc_name \in vpcs
    /\ ~\E i \in 1 .. Len(pools) :
           pools[i].address_pool_id = address_pool_name /\ pools[i].name = name
    /\ next_id(pools) <= MaxId
    /\ LET r == allocate_pool(address_pool_name, prefix)
       IN  /\ r.tag = "cidr"
           /\ pools' = Append(pools, [id |-> next_id(pools),
                                       name |-> name, cidr |-> <<r.addr, r.prefix>>,
                                       address_pool_id |-> address_pool_name,
                                       vpc_id |-> vpc_name])
    /\ UNCHANGED <<address_pools, vpcs, subnets, pc, cmd>>

\* Faulty variant: the pool row is deleted and its subnets are left behind.
PoolDelete_keep_subnets(name) ==
    /\ \E i \in 1 .. Len(pools) : pools[i].name = name
    /\ pools' = SelectSeq(pools, LAMBDA r : r.id # first_pool(name).id)
    /\ UNCHANGED <<address_pools, vpcs, subnets, pc, cmd>>
\* 'pool delete name': session.delete(pool) cascades to the subnets of the pool.
PoolDelete(name) ==
    /\ \E i \in 1 .. Len(pools) : pools[i].name = name
    /\ LET pool == first_pool(name)
       IN  /\ pools' = SelectSeq(pools, LAMBDA r : r.id # pool.id)
           /\ subnets' = SelectSeq(subnets, LAMBDA r : r.pool_id # pool.id)
    /\ UNCHANGED <<address_pools, vpcs, pc, cmd>>

\* Faulty variant: a subnet prefix equal to the pool's prefix is let through.
SubnetCreate_equal_prefix(name, pool_name, vpc_name, prefix) ==
    /\ ~(prefix < 0 \/ prefix > AddrBits)
    /\ \E i \in 1 .. Len(pools) : pools[i].name = pool_name
    /\ next_id(subnets) <= MaxId
    /\ LET pool == first_pool(pool_name)
           r == allocate_subnet(pool_name, prefix)
       IN  /\ ~(prefix < pool.cidr[2])
           /\ vpc_name \in vpcs
           /\ ~(pool.vpc_id # vpc_name)
           /\ ~\E i \in 1 .. Len(subnets) :
                  subnets[i].pool_id = pool.id /\ subnets[i].name = name
           /\ r.tag = "cidr"
           /\ subnets' = Append(subnets, [id |-> next_id(subnets),
                                           name |-> name, cidr |-> <<r.addr, r.prefix>>,
                                           pool_id |-> pool.id, vpc_id |-> vpc_name])
    /\ UNCHANGED <<address_pools, vpcs, pools, pc, cmd>>
\* 'subnet create name pool_name vpc_name --prefix prefix', start to end.
SubnetCreate(name, pool_name, vpc_name, prefix) ==
    /\ ~(prefix < 0 \/ prefix > AddrBits)
    /\ \E i \in 1 .. Len(pools) : pools[i].name = pool_name
    /\ next_id(subnets) <= MaxId
    /\ LET pool == first_pool(pool_name)
           r == allocate_subnet(pool_name, prefix)
       IN  /\ ~(prefix <= pool.cidr[2])
           /\ vpc_name \in vpcs
           /\ ~(pool.vpc_id # vpc_name)
           /\ ~\E i \in 1 .. Len(subnets) :
                  subnets[i].pool_id = pool.id /\ subnets[i].name = name
           /\ r.tag = "cidr"
           /\ subnets' = Append(subnets, [id |-> next_id(subnets),
                                           name |-> name, cidr |-> <<r.addr, r.prefix>>,
                                           pool_id |-> pool.id, vpc_id |-> vpc_name])
    /\ UNCHANGED <<address_pools, vpcs, pools, pc, cmd>>

\* 'subnet delete name'
SubnetDelete(name) ==
    /\ \E i \in 1 .. Len(subnets) : subnets[i].name = name
    /\ subnets' = SelectSeq(subnets, LAMBDA r : r.id # first_subnet(name).id)
    /\ UNCHANGED <<address_pools, vpcs, pools, pc, cmd>>

vars == <<allocVars, orderVars, cliVars>>

Init == AllocInit /\ OrderIdle /\ CliIdle

\* Any caller of the class: add_used_range is given any CIDR at all.
Next ==
    \/ \E c \in InputCidrs : AddUsedRange(c) /\ UNCHANGED <<orderVars, cliVars>>
    \/ \E c \in InputCidrs : IsAvailable(c) /\ UNCHANGED <<orderVars, cliVars>>
    \/ \E p \in Prefixes : FindBestFit(p) /\ UNCHANGED <<orderVars, cliVars>>

Spec == Init /\ [][Next]_vars

\* The callers of ipam2.py: add_used_range is given the CIDRs of the parent's children.
NextChildren ==
    \/ \E c \in ChildCidrs : AddUsedRange(c) /\ UNCHANGED <<orderVars, cliVars>>
    \/ \E c \in InputCidrs : IsAvailable(c) /\ UNCHANGED <<orderVars, cliVars>>
    \/ \E p \in Prefixes : FindBestFit(p) /\ UNCHANGED <<orderVars, cliVars>>

SpecChildren == Init /\ [][NextChildren]_vars

\* A fresh allocator to which distinct CIDRs are added one by one, in any order.
InitOrder ==
    /\ AllocInit
    /\ parent_cidr = Window
    /\ added = {}
    /\ CliIdle

AddNext(c) ==
    /\ AddUsedRange(c)
    /\ added' = added \cup {c}
    /\ UNCHANGED cliVars

NextOrder == \E c \in InputCidrs \ added : AddNext(c)

SpecOrder == InitOrder /\ [][NextOrder]_vars

\* A fresh allocator on any parent CIDR, asked again and again for a block of
\* one prefix length: prefix_length holds it from the start.
InitFill ==
    /\ parent_cidr \in Cidrs
    /\ used_ranges = <<>>
    /\ op = "__init__"
    /\ prefix_length \in Prefixes
    /\ covered = FALSE
    /\ ret = None
    /\ taken = {}
    /\ nops = 0
    /\ OrderIdle
    /\ CliIdle

\* One call more than the address space has addresses.
MaxFill == Pow2(AddrBits) + 1

NextFill ==
    /\ nops < MaxFill
    /\ CallFindBestFit(prefix_length)
    /\ UNCHANGED <<orderVars, cliVars>>

SpecFill == InitFill /\ [][NextFill]_vars

\* Parents of an allocator that only find_best_fit is called on: the whole address
\* space, written with and without host bits, and its upper half.
FindsParents == {<<0, 0>>, <<1, 0>>, <<Pow2(AddrBits - 1) + 1, 1>>}

\* A fresh allocator on which find_best_fit alone is called, with any prefix lengths.
InitFinds ==
    /\ parent_cidr \in FindsParents
    /\ used_ranges = <<>>
    /\ op = "__init__"
    /\ prefix_length = 0
    /\ covered = FALSE
    /\ ret = None
    /\ taken = {}
    /\ nops = 0
    /\ OrderIdle
    /\ CliIdle

NextFinds ==
    \E p \in Prefixes :
        /\ nops < MaxFinds
        /\ CallFindBestFit(p)
        /\ UNCHANGED <<orderVars, cliVars>>

SpecFinds == InitFinds /\ [][NextFinds]_vars

\* The commands of ipam2.py, each 'pool create' running in a process of its own.
InitCli ==
    /\ AllocInit
    /\ parent_cidr = Window
    /\ OrderIdle
    /\ CliIdle

NextCli ==
    \/ \E name \in AddressPoolNames, c \in ParentCidrs :
           AddressPoolCreate(name, c) /\ UNCHANGED <<allocVars, orderVars>>
    \/ \E name \in VpcNames : VpcCreate(name) /\ UNCHANGED <<allocVars, orderVars>>
    \/ \E p \in Procs, name \in PoolNames, apn \in AddressPoolNames,
          vn \in VpcNames, prefix \in Prefixes :
           PoolCreateChecks(p, name, apn, vn, prefix) /\ UNCHANGED <<allocVars, orderVars>>
    \/ \E p \in Procs : PoolCreateAllocate(p) /\ UNCHANGED <<allocVars, orderVars>>
    \/ \E p \in Procs : PoolCreateCommit(p) /\ UNCHANGED <<allocVars, orderVars>>

SpecCli == InitCli /\ [][NextCli]_vars

\* The commands of ipam2.py run one at a time.
NextSeq ==
    \/ \E name \in SeqAddressPoolNames, c \in ParentCidrs :
           AddressPoolCreate(name, c) /\ UNCHANGED <<allocVars, orderVars>>
    \/ \E name \in SeqAddressPoolNames :
           AddressPoolDelete(name) /\ UNCHANGED <<allocVars, orderVars>>
    \/ \E name \in VpcNames : VpcCreate(name) /\ UNCHANGED <<allocVars, orderVars>>
    \/ \E name \in VpcNames : VpcDelete(name) /\ UNCHANGED <<allocVars, orderVars>>
    \/ \E name \in PoolNames, apn \in SeqAddressPoolNames, vn \in VpcNames,
          prefix \in Prefixes :
           PoolCreate(name, apn, vn, prefix) /\ UNCHANGED <<allocVars, orderVars>>
    \/ \E name \in PoolNames : PoolDelete(name) /\ UNCHANGED <<allocVars, orderVars>>
    \/ \E name \in SubnetNames, pn \in PoolNames, vn \in VpcNames, prefix \in Prefixes :
           SubnetCreate(name, pn, vn, prefix) /\ UNCHANGED <<allocVars, orderVars>>
    \/ \E name \in SubnetNames : SubnetDelete(name) /\ UNCHANGED <<allocVars, orderVars>>

SpecSeq == InitCli /\ [][NextSeq]_vars

-----------------------------------------------------------------------------
(* What the properties speak of, stated over sets of addresses *)

SetMin(S) == CHOOSE x \in S : \A y \in S : x <= y
SetMax(S) == CHOOSE x \in S : \A y \in S : x >= y

\* The parent's addresses that no used range covers.
Free(ranges) == Addrs(parent_cidr) \ Cover(ranges)

\* The maximal runs lo .. hi of addresses of a set.
Runs(F) ==
    LET starts == {x \in F : (x - 1) \notin F}
        ends == {x \in F : (x + 1) \notin F}
    IN  {g \in starts \X ends : g[1] <= g[2] /\ (g[1] .. g[2]) \subseteq F}

\* The free gaps of the parent: the maximal runs of free addresses.
FreeGaps(ranges) == Runs(Free(ranges))
GapSize(g) == g[2] - g[1] + 1

\* The network-aligned blocks of 2^(AddrBits - p) addresses.
AlignedBlocks(p) ==
    {Addrs(<<a, p>>) : a \in {x \in AddrSpace : x % Pow2(AddrBits - p) = 0}}

\* The free gaps a request for prefix length p can use, and the least of their sizes.
Qualifying(ranges, p) == {g \in FreeGaps(ranges) : GapSize(g) >= Pow2(AddrBits - p)}
LeastSize(ranges, p) == SetMin({GapSize(g) : g \in Qualifying(ranges, p)})

\* The qualifying gap of least size, the lowest one if several have that size.
Selected(ranges, p) ==
    LET qualifying == Qualifying(ranges, p)
        least == SetMin({GapSize(g) : g \in qualifying})
        smallest == {g \in qualifying : GapSize(g) = least}
    IN  CHOOSE g \in smallest : \A h \in smallest : g[1] <= h[1]

\* The gap holds a network-aligned block of 2^(AddrBits - p) addresses.
HoldsAligned(g, p) == \E b \in AlignedBlocks(p) : b \subseteq (g[1] .. g[2])

\* A successful find_best_fit was the last call.
Allocated == op = "find_best_fit" /\ ret.tag = "cidr"

-----------------------------------------------------------------------------
(* Properties of one allocator instance *)

\* C1: a CIDR returned by find_best_fit intersects no range that was used when
\* the call was made, and no address added or returned earlier on the instance.
C1_NoOverlap ==
    [][Allocated' => Block(ret') \cap (Cover(used_ranges) \cup taken) = {}]_vars

\* A find_best_fit that succeeded after earlier calls had taken other addresses.
C1_Witness == Allocated /\ nops = MaxOps /\ (taken \ Block(ret)) # {}

\* C2 as stated: find_best_fit returns a CIDR exactly when the parent holds a free
\* network-aligned block of the requested size.
C2_FitsIffFreeBlock ==
    [][op' = "find_best_fit" =>
        (ret'.tag = "cidr" <=>
            \E b \in AlignedBlocks(prefix_length') : b \subseteq Free(used_ranges))]_vars

\* C2 as the code has it: find_best_fit returns a CIDR exactly when a qualifying
\* gap exists and the one selected (least waste, lowest start) holds an aligned
\* block of the requested size; a CIDR returned is a free aligned block of the parent.
C2_FitsIffSelectedGapHolds ==
    [][op' = "find_best_fit" =>
        /\ ret'.tag = "cidr" <=>
              /\ Qualifying(used_ranges, prefix_length') # {}
              /\ HoldsAligned(Selected(used_ranges, prefix_length'), prefix_length')
        /\ ret'.tag = "cidr" =>
              /\ Block(ret') \in AlignedBlocks(prefix_length')
              /\ Block(ret') \subseteq Free(used_ranges)]_vars

\* find_best_fit returned None although a free aligned block of the size exists.
C2_Witness ==
    /\ op = "find_best_fit"
    /\ ret.tag = "None"
    /\ \E b \in AlignedBlocks(prefix_length) : b \subseteq Free(used_ranges)

\* C4: with used ranges that are children of the parent or its own results, a CIDR
\* returned by find_best_fit has parent_start <= alloc_start and alloc_end <= parent_end.
C4_Containment ==
    Allocated =>
        /\ SetMin(Addrs(parent_cidr)) <= ret.addr
        /\ ret.addr + Pow2(AddrBits - ret.prefix) - 1 <= SetMax(Addrs(parent_cidr))

\* An allocation made in a proper sub-network after children were added.
C4_Witness ==
    /\ Allocated
    /\ parent_cidr[2] > 0
    /\ nops = MaxOps
    /\ Len(used_ranges) >= 2

\* C5: a CIDR returned by find_best_fit(prefix_length) starts at a multiple of
\* 2^(AddrBits - prefix_length) and marks exactly that many addresses as used.
C5_Alignment ==
    [][Allocated' =>
        /\ ret'.prefix = prefix_length'
        /\ ret'.addr % Pow2(AddrBits - prefix_length') = 0
        /\ Cover(used_ranges') \ Cover(used_ranges)
              = ret'.addr .. (ret'.addr + Pow2(AddrBits - prefix_length') - 1)]_vars

\* A multi-address block allocated next to existing used ranges.
C5_Witness ==
    /\ Allocated
    /\ prefix_length < AddrBits
    /\ (taken \ Block(ret)) # {}

\* C6 as stated: a successful find_best_fit places the block inside a largest
\* free gap of the parent.
C6_LargestGap ==
    [][Allocated' =>
        LET gaps == FreeGaps(used_ranges)
        IN  \E g \in gaps :
                /\ Block(ret') \subseteq (g[1] .. g[2])
                /\ \A h \in gaps : GapSize(h) <= GapSize(g)]_vars

C8_Merged ==
    /\ \A i \in 1 .. Len(used_ranges) : used_ranges[i][1] <= used_ranges[i][2]
    /\ \A i \in 1 .. (Len(used_ranges) - 1) :
           used_ranges[i][2] + 1 < used_ranges[i + 1][1]

\* Two adjacent blocks collapsed: one interval of three addresses can only be a
\* block of two next to a block of one.
C8_Witness ==
    /\ op = "add_used_range"
    /\ Len(used_ranges) = 1
    /\ used_ranges[1][2] - used_ranges[1][1] + 1 = 3

\* C3: the pools committed under one address pool never overlap, however the
\* steps of concurrent 'pool create' commands interleave.
C3_NoOverlapUnderConcurrency ==
    \A i, j \in 1 .. Len(pools) :
        (i # j /\ pools[i].address_pool_id = pools[j].address_pool_id)
            => Addrs(pools[i].cidr) \cap Addrs(pools[j].cidr) = {}

\* The list obtained by adding the CIDRs of a set in ascending order.
RECURSIVE AddAscending(_, _)
AddAscending(ranges, S) ==
    IF S = {} THEN ranges
    ELSE LET c == CHOOSE c \in S : \A d \in S : c = d \/ TupleLess(c, d)
         IN  AddAscending(add_used_range(ranges, c), S \ {c})

\* C9: in whatever order the CIDRs of the set added were added to an empty allocator,
\* used_ranges is the list that adding them in ascending order yields.
C9_OrderIndependent == used_ranges = AddAscending(<<>>, added)

\* A full set of overlapping or adjacent and disjoint CIDRs has been added.
C9_Witness ==
    /\ Cardinality(added) = MaxOps
    /\ Len(used_ranges) = 2
    /\ \E c, d \in added : c # d /\ Addrs(c) \subseteq Addrs(d)

\* C10: add_used_range of a CIDR that one used range already covers (the same
\* CIDR a second time included) leaves used_ranges unchanged.
C10_Absorbing ==
    [][(op' = "add_used_range" /\ covered') => used_ranges' = used_ranges]_vars

\* A covered CIDR was added while another used range follows the covering one.
C10_Witness ==
    /\ op = "add_used_range"
    /\ covered
    /\ Len(used_ranges) >= 2

-----------------------------------------------------------------------------
(* Exhaustion and availability *)

\* C11: when the required size exceeds the size of every free gap of the parent,
\* find_best_fit returns None, whatever CIDRs were added before.
C11_Exhaustion ==
    [][(op' = "find_best_fit" /\ Qualifying(used_ranges, prefix_length') = {})
          => ret' = None]_vars

\* C12: where is_available is called, for every CIDR string its answer is false
\* exactly when the CIDR shares an address with a used range; the parent plays no
\* part.  The call made returned one of these answers.
C12_AvailableIffDisjoint ==
    op = "is_available" =>
        LET cover == Cover(used_ranges)
        IN  /\ \A c \in Cidrs :
                   is_available(used_ranges, c) <=> Addrs(c) \cap cover = {}
            /\ \E c \in InputCidrs : ret = Bool(Addrs(c) \cap cover = {})

\* is_available answered false while some CIDR outside the parent is disjoint
\* from every used range and some CIDR within it is not.
C12_Witness ==
    /\ op = "is_available"
    /\ ret = Bool(FALSE)
    /\ Len(used_ranges) >= 2
    /\ \E c \in Cidrs :
           /\ Addrs(c) \cap Addrs(parent_cidr) = {}
           /\ is_available(used_ranges, c)
    /\ \E c \in Cidrs :
           /\ Addrs(c) \subseteq Addrs(parent_cidr)
           /\ ~is_available(used_ranges, c)

-----------------------------------------------------------------------------
(* Properties of the persisted hierarchy under commands run one at a time *)

\* The rows of pools that belong to an address pool, and of subnets that belong
\* to a pool.
PoolsOf(address_pool_name) ==
    {i \in 1 .. Len(pools) : pools[i].address_pool_id = address_pool_name}
SubnetsOf(pool_id) == {i \in 1 .. Len(subnets) : subnets[i].pool_id = pool_id}

\* C13: the pools of one address pool are pairwise disjoint and lie inside the
\* address pool's CIDR; the subnets of one pool are pairwise disjoint and lie
\* inside the CIDR of the pool row they are attached to.
C13_HierarchyNoOverlap ==
    /\ \A i, j \in 1 .. Len(pools) :
           (i # j /\ pools[i].address_pool_id = pools[j].address_pool_id)
               => Addrs(pools[i].cidr) \cap Addrs(pools[j].cidr) = {}
    /\ \A i \in 1 .. Len(pools) : \A ap \in address_pools :
           ap.name = pools[i].address_pool_id
               => Addrs(pools[i].cidr) \subseteq Addrs(ap.cidr)
    /\ \A i, j \in 1 .. Len(subnets) :
           (i # j /\ subnets[i].pool_id = subnets[j].pool_id)
               => Addrs(subnets[i].cidr) \cap Addrs(subnets[j].cidr) = {}
    /\ \A i \in 1 .. Len(subnets) : \A k \in 1 .. Len(pools) :
           pools[k].id = subnets[i].pool_id
               => Addrs(subnets[i].cidr) \subseteq Addrs(pools[k].cidr)

\* Two pools of one name in two address pools, and two subnets in one pool.
C13_Witness ==
    /\ Len(pools) = 2
    /\ pools[1].name = pools[2].name
    /\ pools[1].address_pool_id # pools[2].address_pool_id
    /\ pools[1].cidr # pools[2].cidr
    /\ Len(subnets) = 2
    /\ subnets[1].pool_id = subnets[2].pool_id

\* C14: allocate_pool and allocate_subnet return what find_best_fit returns on the
\* parent's CIDR and the set of the persisted children's CIDRs, whatever the order
\* of the rows: the result is that of an allocator given the set in ascending order.
C14_FunctionOfPersistedSet ==
    /\ \A ap \in address_pools : \A prefix \in Prefixes :
           allocate_pool(ap.name, prefix)
               = find_best_fit(AddAscending(<<>>, {pools[i].cidr : i \in PoolsOf(ap.name)}),
                               ap.cidr, prefix).ret
    /\ \A k \in 1 .. Len(pools) : \A prefix \in Prefixes :
           allocate_subnet(pools[k].name, prefix)
               = LET pool == first_pool(pools[k].name)
                 IN  find_best_fit(
                         AddAscending(<<>>, {subnets[i].cidr : i \in SubnetsOf(pool.id)}),
                         pool.cidr, prefix).ret

\* Two pools of one address pool persisted in descending order of their CIDRs,
\* with room left for a further pool.
C14_Witness ==
    /\ Len(pools) = 2
    /\ pools[1].address_pool_id = pools[2].address_pool_id
    /\ TupleLess(pools[2].cidr, pools[1].cidr)
    /\ \E prefix \in Prefixes :
           allocate_pool(pools[1].address_pool_id, prefix).tag = "cidr"

-----------------------------------------------------------------------------
(* Properties of a fresh allocator asked for blocks of one prefix length *)

\* C15: on a parent of prefix length q, of the calls find_best_fit(p) with p >= q
\* exactly the first 2^(p - q) succeed; from then on used_ranges is the parent as
\* one interval, no free gap qualifies, and every later call returns None.
C15_FillsParent ==
    prefix_length >= parent_cidr[2] =>
        LET n == Pow2(prefix_length - parent_cidr[2])
            size == Pow2(AddrBits - prefix_length)
            parent == Addrs(parent_cidr)
        IN  /\ nops <= n =>
                   /\ Cardinality(taken) = nops * size
                   /\ nops > 0 => Allocated
            /\ nops >= n =>
                   /\ used_ranges = << <<SetMin(parent), SetMax(parent)>> >>
                   /\ taken = parent
                   /\ Qualifying(used_ranges, prefix_length) = {}
            /\ nops > n => ret = None

\* A proper sub-network was filled by at least four blocks and asked once more.
C15_Witness ==
    /\ parent_cidr[2] > 0
    /\ prefix_length >= parent_cidr[2] + 2
    /\ nops > Pow2(prefix_length - parent_cidr[2])
    /\ ret = None

\* C16: on an empty allocator whose parent has P addresses, find_best_fit for a
\* size R <= P returns the block at parent_start + P / 2 if R < P, and the parent
\* block itself if R = P.
C16_Midpoint ==
    [][(/\ op' = "find_best_fit"
        /\ used_ranges = <<>>
        /\ Pow2(AddrBits - prefix_length') <= Cardinality(Addrs(parent_cidr)))
          => LET P == Cardinality(Addrs(parent_cidr))
                 R == Pow2(AddrBits - prefix_length')
                 first == SetMin(Addrs(parent_cidr))
             IN  ret' = Str(<<IF R < P THEN first + (P \div 2) ELSE first,
                              prefix_length'>>)]_vars

\* The first call on a parent written with host bits returned a block smaller
\* than half the parent.
C16_Witness ==
    /\ nops = 1
    /\ Allocated
    /\ parent_cidr[1] # SetMin(Addrs(parent_cidr))
    /\ prefix_length > parent_cidr[2] + 1

-----------------------------------------------------------------------------
(* Properties of an allocator on which only find_best_fit is called *)

\* C17 as stated: after find_best_fit calls alone, find_best_fit returns None only
\* if the parent holds no free network-aligned block of the requested size.
C17_NeverRefusesAFit ==
    [][(op' = "find_best_fit" /\ ret'.tag = "None")
          => ~\E b \in AlignedBlocks(prefix_length') : b \subseteq Free(used_ranges)]_vars

\* C17 as the code has it: after find_best_fit calls alone, find_best_fit returns
\* None only if no free gap has the requested size or the gap selected (least
\* waste, lowest start) holds no network-aligned block of that size.
C17_RefusesOnlyOnSelectedGap ==
    [][(op' = "find_best_fit" /\ ret'.tag = "None")
          => \/ Qualifying(used_ranges, prefix_length') = {}
             \/ ~HoldsAligned(Selected(used_ranges, prefix_length'), prefix_length')]_vars

\* After successful allocations only, a request was refused although a free
\* aligned block of its size exists in a gap that was not selected.
C17_Witness ==
    /\ op = "find_best_fit"
    /\ ret.tag = "None"
    /\ nops = MaxFinds
    /\ Cardinality(taken) > 0
    /\ Qualifying(used_ranges, prefix_length) # {}
    /\ \E b \in AlignedBlocks(prefix_length) : b \subseteq Free(used_ranges)

-----------------------------------------------------------------------------
(* Placement inside the gap that find_best_fit selects *)

\* The gap find_best_fit selects among those it enumerates, as <<gap_start, gap_end>>;
\* <<>> when it enumerates none.
SelectedByCode(ranges, p) ==
    LET gaps == candidate_gaps(ranges, parent_start(parent_cidr),
                               parent_end(parent_cidr), required_size(p))
    IN  IF gaps = <<>> THEN <<>>
        ELSE <<best_gap(gaps)[1], best_gap(gaps)[2]>>

\* C18: once a gap is selected, centring and snapping yield a CIDR exactly when
\* the gap holds a network-aligned block of the required size; with a gap selected,
\* None is returned exactly when the gap holds none.
C18_SnapsIffGapHoldsAligned ==
    [][(op' = "find_best_fit" /\ SelectedByCode(used_ranges, prefix_length') # <<>>)
          => (ret'.tag = "cidr"
                <=> HoldsAligned(SelectedByCode(used_ranges, prefix_length'),
                                 prefix_length'))]_vars

\* A gap was selected and the call returned None.
C18_Witness ==
    /\ op = "find_best_fit"
    /\ ret.tag = "None"
    /\ used_ranges # <<>>
    /\ SelectedByCode(used_ranges, prefix_length) # <<>>

\* C19: with c the start of the selected gap plus half its size and a = c rounded
\* down to a multiple of R, the block returned starts at a if a .. a + R - 1 lies
\* in the gap, and otherwise at gap_end - R + 1 rounded down to a multiple of R.
C19_CentreOrSnapBack ==
    [][(Allocated' /\ SelectedByCode(used_ranges, prefix_length') # <<>>)
          => LET g == SelectedByCode(used_ranges, prefix_length')
                 R == Pow2(AddrBits - prefix_length')
                 c == g[1] + (GapSize(g) \div 2)
                 a == c - (c % R)
             IN  ret'.addr = IF a >= g[1] /\ a + R - 1 <= g[2]
                             THEN a
                             ELSE ((g[2] - R + 1) \div R) * R]_vars

\* The last of the calls placed a block of several addresses in a gap between or
\* beside used ranges that are still apart.
C19_Witness ==
    /\ Allocated
    /\ nops = MaxOps
    /\ prefix_length < AddrBits
    /\ Len(used_ranges) >= 2

\* C20: among the qualifying gaps of least waste find_best_fit uses the one of
\* lowest start: a block returned lies in it, and when it holds no aligned block
\* None is returned, whatever the other gaps hold.
C20_LowestStartNoFallback ==
    [][(op' = "find_best_fit" /\ Qualifying(used_ranges, prefix_length') # {})
          => LET g == Selected(used_ranges, prefix_length')
             IN  /\ ret'.tag = "cidr" => Block(ret') \subseteq (g[1] .. g[2])
                 /\ ~HoldsAligned(g, prefix_length') => ret' = None]_vars

\* A block was placed when at least two free gaps had the least qualifying size:
\* with the block given back, its gap has a twin higher up.
C20_Witness ==
    /\ Allocated
    /\ LET gaps == Runs(Free(used_ranges) \cup Block(ret))
           size == Pow2(AddrBits - prefix_length)
       IN  \E g, h \in gaps :
               /\ Block(ret) \subseteq (g[1] .. g[2])
               /\ h[1] > g[1]
               /\ GapSize(h) = GapSize(g)
               /\ \A k \in gaps : GapSize(k) >= size => GapSize(k) >= GapSize(g)

-----------------------------------------------------------------------------
(* Gap enumeration, frame conditions and coverage *)

\* The list gaps that find_best_fit(p) builds on the instance.
EnumeratedGaps(p) ==
    candidate_gaps(used_ranges, parent_start(parent_cidr), parent_end(parent_cidr),
                   required_size(p))

\* C21: whatever CIDRs add_used_range was given, every gap that find_best_fit
\* enumerates lies within the parent range (parent_start <= gap_start <= gap_end
\* <= parent_end), holds no used address, and is maximal: the address before it
\* and the address after it are used or outside the parent.
C21_GapsBoundedFreeMaximal ==
    \A p \in Prefixes :
        LET gaps == EnumeratedGaps(p)
            pstart == parent_start(parent_cidr)
            pend == parent_end(parent_cidr)
            used == Cover(used_ranges)
        IN  \A i \in 1 .. Len(gaps) :
                /\ pstart <= gaps[i][1]
                /\ gaps[i][1] <= gaps[i][2]
                /\ gaps[i][2] <= pend
                /\ (gaps[i][1] .. gaps[i][2]) \cap used = {}
                /\ gaps[i][1] = pstart \/ (gaps[i][1] - 1) \in used
                /\ gaps[i][2] = pend \/ (gaps[i][2] + 1) \in used

\* C22: is_available, and a find_best_fit that returns None, leave used_ranges
\* as it was; used_ranges differs after a call only if the call was
\* add_used_range or a find_best_fit that returned a CIDR; no call changes
\* parent_cidr.
C22_ReadOnlyUnlessAllocated ==
    [][/\ (op' = "is_available" \/ (op' = "find_best_fit" /\ ret' = None))
            => used_ranges' = used_ranges
       /\ used_ranges' # used_ranges
            => (op' = "add_used_range" \/ (op' = "find_best_fit" /\ ret'.tag = "cidr"))
       /\ parent_cidr' = parent_cidr]_vars

\* find_best_fit selected a gap among used ranges, its block failed the final
\* validation and None was returned.
C22_Witness ==
    /\ op = "find_best_fit"
    /\ ret = None
    /\ Len(used_ranges) >= 2
    /\ Cover(used_ranges) = taken
    /\ EnumeratedGaps(prefix_length) # <<>>

\* C23: the addresses covered by used_ranges are exactly the addresses of the
\* CIDRs given to add_used_range so far (together with the blocks find_best_fit
\* added through it): each call add_used_range(c) covers the addresses covered
\* before united with those of c, drops none and adds no other.
C23_CoveragePreserved == Cover(used_ranges) = taken

\* The CIDR added last was not covered by one used range and merged with its
\* neighbours: the single range left has six addresses, which no one block has.
C23_Witness ==
    /\ op = "add_used_range"
    /\ ~covered
    /\ Len(used_ranges) = 1
    /\ used_ranges[1][2] - used_ranges[1][1] + 1 = 6

-----------------------------------------------------------------------------
(* Prefix validation and referential integrity of the persisted records *)

\* C24: 'pool create' with a prefix not longer than the address pool's, and
\* 'subnet create' with a prefix not longer than the pool's, persist nothing:
\* every persisted pool has a longer prefix than the address pool it names, and
\* every persisted subnet a longer prefix than the pool row it is attached to.
C24_ChildPrefixLonger ==
    /\ \A i \in 1 .. Len(pools) : \A ap \in address_pools :
           ap.name = pools[i].address_pool_id => pools[i].cidr[2] > ap.cidr[2]
    /\ \A i \in 1 .. Len(subnets) : \A k \in 1 .. Len(pools) :
           pools[k].id = subnets[i].pool_id => subnets[i].cidr[2] > pools[k].cidr[2]

\* The shortest prefixes let through: a pool one bit longer than its address
\* pool, with a subnet one bit longer than the pool.
C24_Witness ==
    \E i \in 1 .. Len(subnets) : \E k \in 1 .. Len(pools) : \E ap \in address_pools :
        /\ pools[k].id = subnets[i].pool_id
        /\ ap.name = pools[k].address_pool_id
        /\ pools[k].cidr[2] = ap.cidr[2] + 1
        /\ subnets[i].cidr[2] = pools[k].cidr[2] + 1

-----------------------------------------------------------------------------
(* The snap-forward branch *)

\* C26: when the centre of the selected gap, rounded down to a multiple of the
\* required size, lies before gap_start, the gap holds no network-aligned block
\* of the required size and find_best_fit returns None.
C26_SnapForwardNeverAllocates ==
    [][(/\ op' = "find_best_fit"
        /\ SelectedByCode(used_ranges, prefix_length') # <<>>
        /\ LET g == SelectedByCode(used_ranges, prefix_length')
           IN  centre(g[1], g[2], prefix_length') < g[1])
          => /\ ~HoldsAligned(SelectedByCode(used_ranges, prefix_length'), prefix_length')
             /\ ret' = None]_vars

\* The call selected a gap whose rounded-down centre lies before its start, and
\* the block snapped forward would run past the end of the gap.
C26_Witness ==
    /\ op = "find_best_fit"
    /\ ret = None
    /\ SelectedByCode(used_ranges, prefix_length) # <<>>
    /\ LET g == SelectedByCode(used_ranges, prefix_length)
       IN  /\ centre(g[1], g[2], prefix_length) < g[1]
           /\ snap_forward(g[1], prefix_length) + required_size(prefix_length) - 1 > g[2]

====
